---- MODULE Spec2Model ----
(***************************************************************************)
(* BarChart2 (src/src/widgets/barchart2.rs): the builder that accumulates  *)
(* the configuration, Widget::render, which paints it into a Buffer, and   *)
(* SizeHint::size_hint.                                                    *)
(*                                                                         *)
(* The configuration is the record cfg, one field per field of the struct. *)
(* render consumes the widget (fn render(mut self, ..)), so a rendered     *)
(* configuration is not built further.  A render ends normally or panics;  *)
(* where the outcome of an integer overflow depends on the build           *)
(* (overflow checks on: panic; off: two's complement wrap) both outcomes   *)
(* are behaviours of the model.                                            *)
(***************************************************************************)
EXTENDS Integers, Sequences, FiniteSets, TLC

VARIABLES cfg, calls, phase, res, hint

vars == <<cfg, calls, phase, res, hint>>

-----------------------------------------------------------------------------
(* Bounds of the model *)

\* the Buffer is BufW columns by BufH rows, with its origin at (0, 0)
BufW == 6
BufH == 5
\* add_data is called at most MaxAdds times, with lists of at most MaxGroups values
MaxAdds == 2
MaxGroups == 2

-----------------------------------------------------------------------------
(* Integer types *)

\* u16: bar_width, bar_gap, group_gap and every Rect coordinate
U16Mod == 65536
U16Max == U16Mod - 1

Min(a, b) == IF a < b THEN a ELSE b
Max(a, b) == IF a > b THEN a ELSE b

\* the value a u16 operation leaves when overflow checks are off
Wrap(n) == n % U16Mod
\* whether the exact result n of a u16 operation is out of range
Ovf(n) == n < 0 \/ n > U16Max
\* u16::saturating_sub
SatSub(a, b) == IF a > b THEN a - b ELSE 0

-----------------------------------------------------------------------------
(* Sequences *)

RECURSIVE Concat(_)
\* the concatenation of a sequence of sequences
Concat(ss) == IF ss = <<>> THEN <<>> ELSE Head(ss) \o Concat(Tail(ss))

RECURSIVE SeqMax(_)
\* Iterator::max().unwrap_or_default() over u64 values
SeqMax(s) == IF s = <<>> THEN 0 ELSE Max(Head(s), SeqMax(Tail(s)))

\* all sequences over S of length at most n
SeqsUpTo(S, n) == UNION {[1..k -> S] : k \in 0..n}

Reverse(s) == [k \in 1..Len(s) |-> s[Len(s) + 1 - k]]

-----------------------------------------------------------------------------
(* Rect, Style, Cell, Buffer *)

Rect(x, y, w, h) == [x |-> x, y |-> y, width |-> w, height |-> h]
Left(r) == r.x
Right(r) == r.x + r.width
Top(r) == r.y
Bottom(r) == r.y + r.height

\* A Style is reduced to its foreground: 0 is Style::default() (no
\* foreground set), another number is a colour.
DefaultStyle == 0

\* The symbol of a cell: what the buffer held before render ("old"), a bar
\* glyph of the nine-level set (v = 0 empty, 1..7 eighths, 8 full), a
\* character of a label or a border glyph of the wrapper.
OldSym == [k |-> "old", v |-> 0]
BarSym(level) == [k |-> "bar", v |-> level]
ChrSym(c) == [k |-> "chr", v |-> c]
BoxSym == [k |-> "box", v |-> 0]

BufArea == Rect(0, 0, BufW, BufH)
BufCells == (0..(BufW - 1)) \X (0..(BufH - 1))
InBuf(x, y) == x >= 0 /\ x < BufW /\ y >= 0 /\ y < BufH
InRect(r, x, y) == x >= Left(r) /\ x < Right(r) /\ y >= Top(r) /\ y < Bottom(r)

OldCell == [sym |-> OldSym, fg |-> 0]
\* the buffer render is handed: content of an earlier frame in every cell
OldBuf == [c \in BufCells |-> OldCell]

\* Cell::set_style patches the cell's style: a field the style leaves
\* unset keeps its value
PatchStyle(fg, style) == IF style = DefaultStyle THEN fg ELSE style

\* One write to a cell: keep = TRUE leaves the symbol (Buffer::set_style),
\* src names the pass that made it and, for a bar or a value label, the
\* group g and series s (1-based) it belongs to, k the character's index.
WriteRec(x, y, keep, sym, style, src, g, s, k) ==
    [x |-> x, y |-> y, keep |-> keep, sym |-> sym, style |-> style,
     src |-> src, g |-> g, s |-> s, k |-> k]

ApplyWrite(b, w) ==
    [b EXCEPT ![<<w.x, w.y>>] =
        [sym |-> IF w.keep THEN @.sym ELSE w.sym, fg |-> PatchStyle(@.fg, w.style)]]

RECURSIVE ApplyWrites(_, _)
ApplyWrites(b, ws) ==
    IF ws = <<>> THEN b ELSE ApplyWrites(ApplyWrite(b, Head(ws)), Tail(ws))

-----------------------------------------------------------------------------
(* The configuration and its builder (lines 30-155) *)

None == [some |-> FALSE, v |-> 0]
Some(v) == [some |-> TRUE, v |-> v]

\* Block is a collaborator (widgets::Block): what the chart uses of it is
\* whether it draws borders.
NoBlock == [some |-> FALSE, borders |-> FALSE]
SomeBlock(borders) == [some |-> TRUE, borders |-> borders]

\* impl Default for BarChart2
DefaultChart ==
    [block |-> NoBlock, max |-> None, data |-> <<>>, labels |-> <<>>,
     bar_styles |-> <<>>, bar_width |-> 1, bar_gap |-> 1, group_gap |-> 1,
     value_styles |-> <<>>, label_style |-> DefaultStyle, style |-> DefaultStyle,
     format |-> "format_value"]

\* add_data with the zip dropped: every group gets a value, whatever the
\* length of the list
AddDataNoZip(data, list) ==
    IF data = <<>>
    THEN [i \in 1..Len(list) |-> <<list[i]>>]
    ELSE [i \in 1..Len(data) |->
            Append(data[i], IF i <= Len(list) THEN list[i] ELSE 0)]

\* add_data: the first non-empty list makes one group per value; a later
\* list is zipped with the groups, which stops at the shorter of the two
AddData(data, list) ==
    IF data = <<>>
    THEN [i \in 1..Len(list) |-> <<list[i]>>]
    ELSE [i \in 1..Len(data) |->
            IF i <= Len(list) THEN Append(data[i], list[i]) ELSE data[i]]

add_data(Lists) ==
    /\ phase = "build"
    /\ Len(calls) < MaxAdds
    /\ \E list \in Lists :
          /\ cfg' = [cfg EXCEPT !.data = AddData(@, list)]
          /\ calls' = Append(calls, Len(list))
    /\ UNCHANGED <<phase, res, hint>>

\* The setters: each stores its argument in its field and returns the
\* configuration.
SetField(field, v) ==
    /\ cfg' = [cfg EXCEPT ![field] = v]
    /\ UNCHANGED <<calls, phase, res, hint>>

block(Choices) == phase = "build" /\ \E b \in Choices : SetField("block", b)

value_format(Choices) == phase = "build" /\ \E f \in Choices : SetField("format", f)

max(Choices) == phase = "build" /\ \E m \in Choices : SetField("max", Some(m))

bar_width(Choices) == phase = "build" /\ \E w \in Choices : SetField("bar_width", w)

bar_gap(Choices) == phase = "build" /\ \E g \in Choices : SetField("bar_gap", g)

group_gap(Choices) == phase = "build" /\ \E g \in Choices : SetField("group_gap", g)

style(Choices) == phase = "build" /\ \E st \in Choices : SetField("style", st)

labels(Choices) == phase = "build" /\ \E ls \in Choices : SetField("labels", ls)

-----------------------------------------------------------------------------
(* The collaborators of render *)

\* Buffer::set_style(area, style): every cell of the area is patched
StyleWrites(area, st) ==
    Concat([dy \in 1..area.height |->
              [dx \in 1..area.width |->
                 WriteRec(area.x + dx - 1, area.y + dy - 1, TRUE, OldSym, st,
                          "style", 0, 0, 0)]])

\* Block::inner: a border takes one cell on each side, saturating
BlockInner(b, area) ==
    IF b.borders
    THEN Rect(Min(area.x + 1, Right(area)), Min(area.y + 1, Bottom(area)),
              SatSub(area.width, 2), SatSub(area.height, 2))
    ELSE area

\* Block::render: the border glyphs, on the perimeter of the area
BlockWrites(b, area) ==
    IF ~b.borders THEN <<>>
    ELSE Concat([dy \in 1..area.height |->
                   Concat([dx \in 1..area.width |->
                      IF dx = 1 \/ dx = area.width \/ dy = 1 \/ dy = area.height
                      THEN <<WriteRec(area.x + dx - 1, area.y + dy - 1, FALSE, BoxSym,
                                      DefaultStyle, "block", 0, 0, 0)>>
                      ELSE <<>>])])

\* Block::size_hint(&Rect::default()): the least size that holds the borders
BlockSizeHint(b) ==
    IF b.borders THEN [width |-> 2, height |-> 2] ELSE [width |-> 0, height |-> 0]

RECURSIVE Digits(_)
\* u64::to_string: the decimal digits, most significant first
Digits(n) == IF n < 10 THEN <<n>> ELSE Append(Digits(n \div 10), n % 10)

\* (self.format)(value): format_value (line 60), or the formatter of
\* examples/barchart2.rs, |v| (v + 20).to_string()
Format(f, v) == IF f = "plus20" THEN Digits(v + 20) ELSE Digits(v)

\* Buffer::set_stringn(x, y, string, width, style): one cell per character,
\* at most width of them, clipped at the edges of the buffer
StringWrites(x, y, str, width, st, src, g, s) ==
    Concat([k \in 1..Min(Len(str), width) |->
              IF InBuf(x + k - 1, y)
              THEN <<WriteRec(x + k - 1, y, FALSE, ChrSym(str[k]), st, src, g, s, k)>>
              ELSE <<>>])

-----------------------------------------------------------------------------
(* render: layout resolution (lines 170-200) *)

\* the early return with the height test off by one
EarlyReturnBelowOne(chart_area, data) == chart_area.height < 1 \/ data = <<>>

\* line 170: nothing of the chart is drawn
EarlyReturn(chart_area, data) == chart_area.height < 2 \/ data = <<>>

\* lines 174-180
ResolveMax(c) ==
    IF c.max.some THEN c.max.v
    ELSE SeqMax([g \in 1..Len(c.data) |-> SeqMax(c.data[g])])

\* lines 184-189: the u16 operations in the order of evaluation, each one
\* wrapped; ovf says that one of them left the range of u16
MaxIndex(width, bw, bg, gg, bpc, ngroups) ==
    LET n1 == width + gg
        n2 == Wrap(n1) + bg
        d1 == bw + bg
        d2 == Wrap(d1) * Wrap(bpc)
        d3 == Wrap(d2) + gg
    IN  [ovf |-> Ovf(n1) \/ Ovf(n2) \/ Ovf(d1) \/ Ovf(d2) \/ Ovf(d3),
         div0 |-> Wrap(d3) = 0,
         v |-> IF Wrap(d3) = 0 THEN 0 ELSE Min(Wrap(n2) \div Wrap(d3), ngroups)]

\* the scaling with no row kept for the labels
ScaleHeightAllRows(v, rows, m) == (v * rows * 8) \div Max(m, 1)

\* line 197: u64 arithmetic, truncating division
ScaleHeight(v, rows, m) == (v * (rows - 1) * 8) \div Max(m, 1)

\* lines 208-218: the glyph of the nine-level set for a remaining height
GlyphLevel(d) == IF d >= 8 THEN 8 ELSE d

\* the decrement without its floor at 0: a partial height is kept
RemainingKept(d) == IF d > 8 THEN d - 8 ELSE d

\* lines 235-239: what remains of a bar above the row just painted
Remaining(d) == IF d > 8 THEN d - 8 ELSE 0

RECURSIVE RemainingAfter(_, _)
\* the remaining height when k rows have been painted
RemainingAfter(d, k) == IF k = 0 THEN d ELSE RemainingAfter(Remaining(d), k - 1)

\* slice::get(i).unwrap_or(&default_style), i 0-based
StyleAt(styles, i) == IF i + 1 <= Len(styles) THEN styles[i + 1] ELSE DefaultStyle

RECURSIVE BarsBefore(_, _)
\* the value of the counter i when group g is reached: the bars of the
\* groups before it
BarsBefore(data, g) == IF g <= 1 THEN 0 ELSE BarsBefore(data, g - 1) + Len(data[g - 1])

-----------------------------------------------------------------------------
(* render: the three passes (lines 203-282) *)

\* A step of a pass: ovf says that a u16 operation of the step overflows
\* (a panic when overflow checks are on), oob that it reaches for a cell
\* outside the buffer (Buffer::get_mut panics), ws are the writes it makes.
Step(ovf, oob, ws) == [ovf |-> ovf, oob |-> oob, ws |-> ws]

\* lines 223-228: the column of cell x of the bar with counter i
BarColumn(left, i, bw, bg, x, x_offset) ==
    LET t1 == bw + bg
        t2 == Wrap(i) * Wrap(t1)
        t3 == left + Wrap(t2)
        t4 == Wrap(t3) + x
        t5 == Wrap(t4) + x_offset
    IN  [ovf |-> Ovf(t1) \/ Ovf(t2) \/ Ovf(t3) \/ Ovf(t4) \/ Ovf(t5), v |-> Wrap(t5)]

\* The cells of a bar wider than the buffer are visited up to the first
\* one that is outside it, which is among the first BufW + 1.
BarCells(bw) == Min(bw, BufW + 1)

\* lines 203-243: row by row from the bottom data row up, group by group,
\* series by series
BarPass(c, chart, mi, heights) ==
    LET rows == chart.height
        Cell(r, g, s, x) ==
            LET col == BarColumn(Left(chart), BarsBefore(c.data, g) + s - 1,
                                 c.bar_width, c.bar_gap, x, Wrap((g - 1) * c.group_gap))
                y == Top(chart) + (rows - 2 - r)
                d == RemainingAfter(heights[g][s], r)
            IN  Step(col.ovf, ~InBuf(col.v, y),
                     <<WriteRec(col.v, y, FALSE, BarSym(GlyphLevel(d)),
                                StyleAt(c.bar_styles, s - 1), "bar", g, s, x)>>)
        Group(r, g) ==
            Concat([s \in 1..Len(heights[g]) |->
                      [x1 \in 1..BarCells(c.bar_width) |-> Cell(r, g, s, x1 - 1)]])
            \o <<Step(Ovf(Wrap((g - 1) * c.group_gap) + c.group_gap), FALSE, <<>>)>>
    IN  Concat([r1 \in 1..(rows - 1) |-> Concat([g \in 1..mi |-> Group(r1 - 1, g)])])

\* lines 257-261: where the value label of series s (1-based) starts
ValueLabelPos(chart, i, bw, bg, x_offset, width, s) ==
    LET t1 == bw + bg
        t2 == Wrap(i) * Wrap(t1)
        t3 == Left(chart) + Wrap(t2)
        t4 == Wrap(t3) + x_offset
        t5 == Wrap(t4) + (SatSub(bw, width) \div 2)
        y1 == Bottom(chart) - 2
        y2 == y1 - (s - 1)
    IN  [ovf |-> Ovf(t1) \/ Ovf(t2) \/ Ovf(t3) \/ Ovf(t4) \/ Ovf(t5) \/ Ovf(y1) \/ Ovf(y2),
         x |-> Wrap(t5), y |-> Wrap(y2)]

\* lines 245-267: the groups from the last visible one back to the first,
\* the series of each from the last to the first
ValuePass(c, chart, mi, bpc) ==
    LET gg == c.group_gap
        i0 == mi * bpc
        x0 == gg * Wrap(mi)
        \* x_offset when group g is handled, and whether reaching it overflowed
        XOff(g) == Wrap(x0 - (mi - g + 1) * gg)
        XOvf(g) == Ovf((IF g = mi THEN Wrap(x0) ELSE XOff(g + 1)) - gg)
        \* the counter i at series s of group g: one less for each value
        \* from the end down to it
        I(g, s) == i0 - ((BarsBefore(c.data, mi + 1) - BarsBefore(c.data, g)) - (s - 1))
        Label(g, s) ==
            LET value == c.data[g][s]
                text == Format(c.format, value)
                pos == ValueLabelPos(chart, I(g, s), c.bar_width, c.bar_gap, XOff(g),
                                     Len(text), s)
            IN  IF value = 0 THEN <<>>
                ELSE <<Step(pos.ovf, FALSE,
                            StringWrites(pos.x, pos.y, text, Len(text),
                                         StyleAt(c.value_styles, s - 1), "value", g, s))>>
        Group(g) ==
            <<Step(XOvf(g), FALSE, <<>>)>>
            \o Concat(Reverse([s \in 1..Len(c.data[g]) |-> Label(g, s)]))
    IN  <<Step(Ovf(x0), FALSE, <<>>)>> \o Concat(Reverse([g \in 1..mi |-> Group(g)]))

\* lines 269-270
LabelMaxWidth(bpc, bw, bg) ==
    LET l1 == Wrap(bpc) * bw
        l2 == Wrap(bpc) - 1
        l3 == Wrap(l2) * bg
        l4 == Wrap(l1) + Wrap(l3)
    IN  [ovf |-> Ovf(l1) \/ Ovf(l2) \/ Ovf(l3) \/ Ovf(l4), v |-> Wrap(l4)]

\* lines 271-282: one label under each visible group that has one
LabelPass(c, chart, mi, bpc) ==
    LET lmw == LabelMaxWidth(bpc, c.bar_width, c.bar_gap)
        One(g) ==
            LET i == g - 1
                t1 == c.bar_width + c.bar_gap
                t2 == Wrap(i * bpc) * Wrap(t1)
                t3 == Left(chart) + Wrap(t2)
                t4 == c.group_gap * Wrap(i)
                t5 == Wrap(t3) + Wrap(t4)
                t6 == Wrap(t5) + (SatSub(lmw.v, Wrap(Len(c.labels[g]))) \div 2)
                y == Bottom(chart) - 1
            IN  Step(Ovf(t1) \/ Ovf(t2) \/ Ovf(t3) \/ Ovf(t4) \/ Ovf(t5) \/ Ovf(t6), FALSE,
                     StringWrites(Wrap(t6), y, c.labels[g], lmw.v, c.label_style,
                                  "label", g, 0))
    IN  <<Step(lmw.ovf, FALSE, <<>>)>>
        \o [g \in 1..Min(Len(c.labels), mi) |-> One(g)]

\* The steps run in order up to the first that panics: an overflow when
\* overflow checks are on, a cell outside the buffer in any build.
RunSteps(steps, checks) ==
    LET bad == {k \in 1..Len(steps) : (steps[k].ovf /\ checks) \/ steps[k].oob}
        first == IF bad = {} THEN Len(steps) + 1
                 ELSE CHOOSE k \in bad : \A j \in bad : k <= j
    IN  [panic |-> bad # {},
         why |-> IF bad = {} THEN "" ELSE IF steps[first].ovf /\ checks THEN "overflow"
                 ELSE "out of range",
         ws |-> Concat([k \in 1..(first - 1) |-> steps[k].ws])]

-----------------------------------------------------------------------------
(* render (lines 158-283) *)

\* What a render leaves: the area it was given and the chart area inside
\* the wrapper; how it ended (out, why); early: it returned at line 171;
\* laid: the layout was resolved (max, max_index, heights); pre: the writes
\* of the widget style and of the wrapper; writes: those of the three
\* passes, in order; buf: the buffer at the end.
NoRender ==
    [done |-> FALSE, area |-> Rect(0, 0, 0, 0), chart_area |-> Rect(0, 0, 0, 0),
     out |-> "", why |-> "", early |-> FALSE, laid |-> FALSE,
     max |-> 0, max_index |-> 0, heights |-> <<>>,
     pre |-> <<>>, writes |-> <<>>, buf |-> OldBuf]

Render(c, area, checks) ==
    LET pre == StyleWrites(area, c.style)
               \o (IF c.block.some THEN BlockWrites(c.block, area) ELSE <<>>)
        chart == IF c.block.some THEN BlockInner(c.block, area) ELSE area
        base == [NoRender EXCEPT !.done = TRUE, !.area = area, !.chart_area = chart,
                                 !.out = "ok", !.pre = pre,
                                 !.buf = ApplyWrites(OldBuf, pre)]
    IN  IF EarlyReturn(chart, c.data) THEN [base EXCEPT !.early = TRUE]
        ELSE
        LET m == ResolveMax(c)
            bpc == Len(c.data[1])
            mi == MaxIndex(chart.width, c.bar_width, c.bar_gap, c.group_gap, bpc,
                           Len(c.data))
        IN  IF mi.ovf /\ checks THEN [base EXCEPT !.out = "panic", !.why = "overflow"]
            ELSE IF mi.div0 THEN [base EXCEPT !.out = "panic", !.why = "division by zero"]
            ELSE
            LET heights == [g \in 1..mi.v |->
                              [s \in 1..Len(c.data[g]) |->
                                 ScaleHeight(c.data[g][s], chart.height, m)]]
                run == RunSteps(BarPass(c, chart, mi.v, heights)
                                \o ValuePass(c, chart, mi.v, bpc)
                                \o LabelPass(c, chart, mi.v, bpc), checks)
            IN  [base EXCEPT !.laid = TRUE, !.max = m, !.max_index = mi.v,
                             !.heights = heights,
                             !.out = IF run.panic THEN "panic" ELSE "ok",
                             !.why = run.why,
                             !.writes = run.ws,
                             !.buf = ApplyWrites(base.buf, run.ws)]

\* The areas render is given: inside the buffer.
Areas(Xs, Ys, Ws, Hs) ==
    {Rect(x, y, w, h) : x \in Xs, y \in Ys, w \in Ws, h \in Hs}

AreaInBuf(a) == Right(a) <= BufW /\ Bottom(a) <= BufH

render(As) ==
    /\ phase = "build"
    /\ \E area \in As, checks \in BOOLEAN :
          /\ AreaInBuf(area)
          /\ res' = Render(cfg, area, checks)
    /\ phase' = "rendered"
    /\ UNCHANGED <<cfg, calls, hint>>

-----------------------------------------------------------------------------
(* size_hint (lines 286-299) *)

\* the last answer of size_hint, with the area and the wrapper it was for
NoHint ==
    [done |-> FALSE, area |-> Rect(0, 0, 0, 0), block |-> NoBlock,
     width |-> 0, height |-> 0]

\* size_hint taking the smaller of the two heights
SizeHintMin(b, area) ==
    IF b.some
    THEN LET block_area == BlockSizeHint(b)
         IN  [width |-> Max(area.width, block_area.width),
              height |-> Min(area.height, block_area.height + 1)]
    ELSE [width |-> area.width, height |-> area.height]

SizeHint(b, area) ==
    IF b.some
    THEN LET block_area == BlockSizeHint(b)
         IN  [width |-> Max(area.width, block_area.width),
              height |-> Max(area.height, block_area.height + 1)]
    ELSE [width |-> area.width, height |-> area.height]

size_hint(As) ==
    /\ phase = "build"
    /\ \E area \in As :
          LET h == SizeHint(cfg.block, area)
          IN  hint' = [done |-> TRUE, area |-> area, block |-> cfg.block,
                       width |-> h.width, height |-> h.height]
    /\ UNCHANGED <<cfg, calls, phase, res>>

-----------------------------------------------------------------------------
(* Specifications *)

Init ==
    /\ cfg = DefaultChart
    /\ calls = <<>>
    /\ phase = "build"
    /\ res = NoRender
    /\ hint = NoHint

\* the values of the series
DataVals == {0, 12}
DataLists == SeqsUpTo(DataVals, MaxGroups)

PaintAreas == Areas({1}, {0, 1}, {1, 3, BufW - 1}, {1, 2, BufH - 1})

\* Painting: data, labels, bar width, widget style and wrapper.
Next ==
    \/ add_data(DataLists)
    \/ style({1})
    \/ block({SomeBlock(TRUE)})
    \/ labels({<<<<65, 66, 67>>, <<68>>>>})
    \/ bar_width({3})
    \/ render(PaintAreas)

Spec == Init /\ [][Next]_vars

ScaleAreas == Areas({0}, {0}, {1, BufW - 1}, {2, 3, BufH - 1})

\* Scaling: data, fixed or automatic max, formatter.
NextScale ==
    \/ add_data(DataLists)
    \/ max({0, 12, 24})
    \/ value_format({"plus20"})
    \/ render(ScaleAreas)

SpecScale == Init /\ [][NextScale]_vars

GeomAreas == Areas({0, 1}, {1}, {1, 3, BufW - 1}, {BufH - 1})

\* Geometry: bar width and gaps over the range of u16.
NextGeom ==
    \/ add_data(DataLists)
    \/ bar_width({0, 3, U16Max})
    \/ bar_gap({0, U16Max})
    \/ group_gap({0, 2, U16Max})
    \/ render(GeomAreas)

SpecGeom == Init /\ [][NextGeom]_vars

HintAreas == Areas({0}, {0}, 0..BufW, 0..BufH)

\* Size negotiation.
NextHint ==
    \/ block({SomeBlock(FALSE), SomeBlock(TRUE)})
    \/ size_hint(HintAreas)

SpecHint == Init /\ [][NextHint]_vars

BuildLists == SeqsUpTo({0, 5, 12}, MaxGroups)

\* Accumulation of the series alone.
NextBuild == add_data(BuildLists)

SpecBuild == Init /\ [][NextBuild]_vars

-----------------------------------------------------------------------------
(* C4: the shape of the data after a sequence of add_data calls *)

\* the call that made the groups: the first one with a non-empty list
FirstCall ==
    IF \A k \in 1..Len(calls) : calls[k] = 0 THEN 0
    ELSE CHOOSE k \in 1..Len(calls) :
            calls[k] > 0 /\ \A j \in 1..(k - 1) : calls[j] = 0

SameSeriesCount ==
    \A i, j \in 1..Len(cfg.data) : Len(cfg.data[i]) = Len(cfg.data[j])

\* C4 as stated: after any sequence of add_data calls, with lists of any
\* lengths, all groups hold the same number of series values and the
\* number of groups is the length of the first call's list.
C4_AnyLengths ==
    /\ SameSeriesCount
    /\ calls # <<>> => Len(cfg.data) = calls[1]

\* C4 amended: the number of groups is the length of the first non-empty
\* list; group i holds one value for each call, from that one on, whose list
\* had at least i values; so the groups all hold the same number of values
\* whenever no later list is shorter than the number of groups.
C4_GroupShape ==
    LET n == IF FirstCall = 0 THEN 0 ELSE calls[FirstCall]
        later == Max(FirstCall, 1)..Len(calls)
    IN  /\ Len(cfg.data) = n
        /\ \A i \in 1..n :
              Len(cfg.data[i]) = Cardinality({k \in later : calls[k] >= i})
        /\ (\A k \in later : calls[k] >= n) => SameSeriesCount

\* a shorter second list has left the second group behind the first
C4_Witness ==
    /\ calls = <<2, 1>>
    /\ Len(cfg.data) = 2
    /\ Len(cfg.data[1]) = 2
    /\ Len(cfg.data[2]) = 1

-----------------------------------------------------------------------------
(* C9: size_hint *)

\* C9 as stated: with a wrapper the reported height is the wrapper's
\* minimum height plus one, for every proposed area; without one the
\* proposed width and height are reported.
C9_MinimumPlusOne ==
    hint.done =>
        IF hint.block.some
        THEN hint.height = BlockSizeHint(hint.block).height + 1
        ELSE hint.width = hint.area.width /\ hint.height = hint.area.height

\* C9 amended: with a wrapper the reported height is the larger of the
\* proposed height and the wrapper's minimum height plus one, and the
\* reported width the larger of the proposed width and the wrapper's minimum
\* width; without a wrapper the proposed width and height are reported.
C9_LargerOfTheTwo ==
    hint.done =>
        LET least == BlockSizeHint(hint.block)
        IN  IF hint.block.some
            THEN /\ hint.height >= hint.area.height
                 /\ hint.height >= least.height + 1
                 /\ hint.height \in {hint.area.height, least.height + 1}
                 /\ hint.width >= hint.area.width
                 /\ hint.width >= least.width
                 /\ hint.width \in {hint.area.width, least.width}
            ELSE hint.width = hint.area.width /\ hint.height = hint.area.height

\* a proposed area taller than the wrapper's minimum plus one keeps its height
C9_Witness ==
    /\ hint.done
    /\ hint.block.some
    /\ hint.block.borders
    /\ hint.area.height > BlockSizeHint(hint.block).height + 1
    /\ hint.height = hint.area.height

-----------------------------------------------------------------------------
(* What a render painted *)

\* rows of the chart area; the last one is kept for the category labels
Rows == res.chart_area.height

\* the visible bars: group and series, 1-based
VisibleBars ==
    UNION {{<<g, s>> : s \in 1..Len(res.heights[g])} : g \in 1..res.max_index}

WritesOf(src) == {res.writes[k] : k \in {j \in 1..Len(res.writes) : res.writes[j].src = src}}

\* the glyph levels the bar pass wrote for bar b on data row r, r = 0 the
\* bottom data row
Levels(b, r) ==
    {w.sym.v : w \in {w \in WritesOf("bar") :
                        /\ w.g = b[1] /\ w.s = b[2]
                        /\ w.y = Top(res.chart_area) + (Rows - 2 - r)}}

\* the bar pass painted bar b on every data row
Painted(b) == \A r \in 0..(Rows - 2) : Levels(b, r) # {}

FullRows(b) == Cardinality({r \in 0..(Rows - 2) : Levels(b, r) = {8}})

-----------------------------------------------------------------------------
(* C6: the scaling at the extremes *)

-----------------------------------------------------------------------------
(* C7: the glyphs of a bar, from the bottom data row up *)

\* the glyph level of row r of a bar of height he: full below the height,
\* the partial glyph at it, empty above
RowLevel(he, r) == IF r < he \div 8 THEN 8 ELSE IF r = he \div 8 THEN he % 8 ELSE 0

\* C7 as stated: the rows painted for a visible bar of height heightEighths
\* hold exactly floor(heightEighths / 8) full blocks, then at most one
\* partial glyph of level heightEighths mod 8, then empty glyphs, also when
\* a fixed max is smaller than the value.
C7_FullRowsUnclamped ==
    res.laid =>
        \A b \in VisibleBars :
            LET he == res.heights[b[1]][b[2]]
            IN  Painted(b) =>
                  /\ FullRows(b) = he \div 8
                  /\ \A r \in 0..(Rows - 2) : Levels(b, r) = {RowLevel(he, r)}

\* C7 amended: the rows painted for a visible bar hold
\* min(floor(heightEighths / 8), rows - 1) full blocks from the bottom data
\* row up; if a data row is left above them it shows the glyph of level
\* heightEighths mod 8 (the empty glyph when that is 0), and every row above
\* it shows the empty glyph.
C7_FullRowsClamped ==
    res.laid =>
        \A b \in VisibleBars :
            LET he == res.heights[b[1]][b[2]]
            IN  /\ \A r \in 0..(Rows - 2) : Levels(b, r) \subseteq {RowLevel(he, r)}
                /\ Painted(b) => FullRows(b) = Min(he \div 8, Rows - 1)
                /\ (res.out = "ok" /\ cfg.bar_width >= 1) => Painted(b)

\* a bar of one full row, a half row and an empty row
C7_Witness ==
    /\ res.laid
    /\ Rows = 4
    /\ \E b \in VisibleBars :
          /\ res.heights[b[1]][b[2]] = 12
          /\ Painted(b)
          /\ Levels(b, 0) = {8}
          /\ Levels(b, 1) = {4}
          /\ Levels(b, 2) = {0}

-----------------------------------------------------------------------------
(* C3: degenerate input *)

\* the columns the bars of one group take, gaps between them included
GroupWidth(c) ==
    Len(c.data[1]) * c.bar_width + (Len(c.data[1]) - 1) * c.bar_gap

\* the sums of lines 185-186 stay in the range of u16
GeometryFits(c, width) ==
    /\ width + c.group_gap + c.bar_gap <= U16Max
    /\ (c.bar_width + c.bar_gap) * Len(c.data[1]) + c.group_gap <= U16Max

OnBorder(r, x, y) ==
    x = Left(r) \/ x = Right(r) - 1 \/ y = Top(r) \/ y = Bottom(r) - 1

-----------------------------------------------------------------------------
(* C1: writes stay inside the target area *)

\* C1: every cell whose symbol or style differs after render lies inside
\* the target area.
C1_WritesInsideArea ==
    (res.done /\ res.out = "ok") =>
        \A c \in BufCells : res.buf[c] # OldBuf[c] => InRect(res.area, c[1], c[2])

-----------------------------------------------------------------------------
(* C10: value labels line up with their bars *)

\* the writes of pass src for bar b
BarWrites(src, b) == {w \in WritesOf(src) : w.g = b[1] /\ w.s = b[2]}

\* C10: the value label of a visible bar of non-zero value is written on
\* row bottom - 2 - s, all of it inside the columns [c, c + barWidth) of the
\* bar, c being the first column the bar pass painted for that bar; a bar
\* of value 0 gets no value label.
C10_LabelInsideBar ==
    (res.laid /\ res.out = "ok") =>
        \A b \in VisibleBars :
            LET cols == {w.x : w \in BarWrites("bar", b)}
                lab == BarWrites("value", b)
            IN  IF cfg.data[b[1]][b[2]] = 0 THEN lab = {}
                ELSE /\ lab # {}
                     /\ \A w \in lab :
                           /\ w.y = Bottom(res.chart_area) - 2 - (b[2] - 1)
                           /\ \E c \in cols :
                                 /\ \A c2 \in cols : c <= c2
                                 /\ c <= w.x
                                 /\ w.x < c + cfg.bar_width

-----------------------------------------------------------------------------
(* C2: render never panics *)

\* C2: for every configuration the builder reaches and every target area,
\* render runs to completion.
C2_NeverPanics == res.done => res.out = "ok"

-----------------------------------------------------------------------------
(* C5: no group is painted partially *)

\* the visible-group count of the claim, in exact arithmetic
ExactCount(c, width) ==
    LET bpc == Len(c.data[1])
        per == (c.bar_width + c.bar_gap) * bpc + c.group_gap
    IN  IF per = 0 THEN Len(c.data)
        ELSE Min((width + c.group_gap + c.bar_gap) \div per, Len(c.data))

\* the bars of the first j groups end inside the width
GroupsFit(c, width, j) ==
    LET bpc == Len(c.data[1])
    IN  j * bpc * (c.bar_width + c.bar_gap) - c.bar_gap + (j - 1) * c.group_gap <= width

\* bar b has all its columns painted inside the chart area, on every data row
WholeBar(b) ==
    \A r \in 0..(Rows - 2) :
        LET cols == {w.x : w \in {w \in BarWrites("bar", b) :
                                    w.y = Top(res.chart_area) + (Rows - 2 - r)}}
        IN  \/ cfg.bar_width = 0 /\ cols = {}
            \/ \E c \in cols :
                  /\ cols = c..(c + cfg.bar_width - 1)
                  /\ Left(res.chart_area) <= c
                  /\ c + cfg.bar_width <= Right(res.chart_area)

AllBars == UNION {{<<g, s>> : s \in 1..Len(cfg.data[g])} : g \in 1..Len(cfg.data)}

NoPartialGroup(k) ==
    /\ \A b \in AllBars :
          IF b[1] <= k THEN WholeBar(b) ELSE BarWrites("bar", b) = {}
    /\ GroupsFit(cfg, res.chart_area.width, k)
    /\ k = Len(cfg.data) \/ ~GroupsFit(cfg, res.chart_area.width, k + 1)

\* C5: with k = min(floor((width + groupGap + barGap) / ((barWidth + barGap)
\* * seriesPerGroup + groupGap)), number of groups), every bar of the first
\* k groups has all its columns inside the area, no bar of a later group has
\* a cell painted, and k is the largest number of leading groups that fit.
C5_WholeGroupsOnly ==
    (res.laid /\ res.out = "ok") =>
        NoPartialGroup(ExactCount(cfg, res.chart_area.width))

-----------------------------------------------------------------------------
(* C8: the visible-group count is monotonic *)

\* values a geometry parameter is raised to
RaisedTo(v) == {w \in {v + 1, 3, U16Max - 1, U16Max} : w > v /\ w <= U16Max}

\* the count render computes for the data and width of the last render with
\* the geometry bw, bg, gg; no count when the division is by zero
CountWith(bw, bg, gg) ==
    MaxIndex(res.chart_area.width, bw, bg, gg, Len(cfg.data[1]), Len(cfg.data))

\* C8: for a fixed width and fixed data, raising one of barWidth, barGap and
\* groupGap by any amount within u16, the other two held, never raises the
\* visible-group count render computes.
C8_CountMonotonic ==
    res.laid =>
        LET bw == cfg.bar_width
            bg == cfg.bar_gap
            gg == cfg.group_gap
            NotMore(m) == m.div0 \/ m.v <= res.max_index
        IN  /\ \A w \in RaisedTo(bw) : NotMore(CountWith(w, bg, gg))
            /\ \A w \in RaisedTo(bg) : NotMore(CountWith(bw, w, gg))
            /\ \A w \in RaisedTo(gg) : NotMore(CountWith(bw, bg, w))

====
